---- MODULE Spec2Model ----
(***************************************************************************)
(* Model of crop-image: render.py (batch render + content-union crop) and  *)
(* render_selenium.py (single-document variant).                           *)
(*                                                                         *)
(* File names are sequences of one-character strings, so that endswith and *)
(* the slice filename[:-5] are computed as the code computes them.         *)
(* Coordinates reported by the browser are fractional pixels; they are     *)
(* kept in units of 1/Scale pixel and int() truncates toward zero.         *)
(***************************************************************************)
EXTENDS Integers, Sequences, FiniteSets, TLC

VARIABLES
    cwdIsDir,   \* the process's working directory is the scanned directory
    fs,         \* the file system: path -> file content
    force,      \* args.force
    margin,     \* args.margin (whole pixels)
    runNo,      \* which invocation of the batch script this is
    run,        \* position of process_directory_selenium: "loop", "done", "aborted"
    todo,       \* entries of os.listdir(directory) the for loop has not reached
    cur,        \* the entry the for loop is at (NoName between iterations)
    outcome,    \* per listed '.html' entry: what the run did with it
    pc,         \* per task: position inside render_and_crop_html_selenium
    args,       \* per task: [html |-> html_path, out |-> output_img_path]
    driver,     \* per task: the webdriver.Chrome instance
    box,        \* per task: (left, top, right, bottom) returned by the bbox query
    cropArg,    \* per task: the rectangle handed to img.crop (NoBox if none yet)
    launches,   \* number of browser engines launched in this run
    fsAtStart,  \* the file system when this run started
    raisedAt,   \* per task: the step whose exception ended the render ("" if none)
    script      \* which file's render_and_crop_html_selenium is running

vars == <<cwdIsDir, fs, force, margin, runNo, run, todo, cur, outcome,
          pc, args, driver, box, cropArg, launches, fsAtStart,
          raisedAt, script>>

----------------------------------------------------------------------------
(* Bounds and program constants *)

MaxRuns == 2            \* invocations of the batch script in one behaviour
Scale == 2              \* sub-pixel resolution: coordinates are in 1/Scale px
DefaultMargin == 20     \* margin=20
WindowWidth == 1920     \* --window-size=1920,1080
WindowHeight == 1080
ImgW == 2               \* width of the rasters of SpecImage
ImgH == 1               \* height of the rasters of SpecImage
White == 255            \* (255, 255, 255)

Tasks == {"t1", "t2"}
MainTask == "t1"

Max(a, b) == IF a >= b THEN a ELSE b
MinOf(S) == CHOOSE x \in S : \A y \in S : x <= y
MaxOf(S) == CHOOSE x \in S : \A y \in S : x >= y

----------------------------------------------------------------------------
(* File names and paths *)

DotHtml == <<".","h","t","m","l">>
DotPng == <<".","p","n","g">>
NoName == <<>>

A_html == <<"a",".","h","t","m","l">>
B_html == <<"b",".","h","t","m","l">>
Notes_txt == <<"n","o","t","e","s",".","t","x","t">>
C_HTML == <<"c",".","H","T","M","L">>
Selenium_rendered_html ==
    <<"s","e","l","e","n","i","u","m","_","r","e","n","d","e","r","e","d",".","h","t","m","l">>
ScreenshotName ==
    <<"s","e","l","e","n","i","u","m","_","r","e","n","d","e","r","e","d",".","p","n","g">>

\* str.endswith
endswith(s, suffix) ==
    /\ Len(s) >= Len(suffix)
    /\ SubSeq(s, Len(s) - Len(suffix) + 1, Len(s)) = suffix

\* filename[:-5]: everything but the last five characters
DropLast5(s) == IF Len(s) >= 5 THEN SubSeq(s, 1, Len(s) - 5) ELSE <<>>

\* filename[:-5] + '.png'
PngNameOf(filename) == DropLast5(filename) \o DotPng

\* os.path.join(directory, name)
InDirectory(name) == [dir |-> "directory", name |-> name]

html_path(filename) == InDirectory(filename)
output_img_path(filename) == InDirectory(PngNameOf(filename))

\* A per-task temporary name (not what the code does).
screenshot_path_PerTask(t) ==
    [dir |-> "cwd", name |-> ScreenshotName \o <<t>>]

\* screenshot_path = 'selenium_rendered.png': the same relative name in every
\* invocation t, resolved against the working directory.
screenshot_path(t) ==
    [dir |-> IF cwdIsDir THEN "directory" ELSE "cwd", name |-> ScreenshotName]

DocNames == {A_html, B_html, Selenium_rendered_html}
OtherNames == {Notes_txt, C_HTML}
EntryNames == DocNames \cup OtherNames
DirNames == EntryNames \cup {PngNameOf(n) : n \in DocNames} \cup {ScreenshotName}
Paths == {InDirectory(n) : n \in DirNames}
         \cup {[dir |-> "cwd", name |-> ScreenshotName]}
         \cup {screenshot_path_PerTask(t) : t \in Tasks}

----------------------------------------------------------------------------
(* Rasters: what PIL holds *)

NoImage == [mode |-> "none", size |-> <<0, 0>>, px |-> <<>>]

Pixels(w, h) == (0 .. w - 1) \X (0 .. h - 1)

\* What a pixel outside the source raster becomes in a crop.
ZeroPixel(mode) ==
    CASE mode = "RGBA" -> <<0, 0, 0, 0>>
      [] mode = "LA" -> <<0, 0>>
      [] mode = "RGB" -> <<0, 0, 0>>
      [] OTHER -> <<0>>

NoBox == <<>>

\* img.crop((left, top, right, bottom)): the result has the box's size, a
\* pixel of the box that lies outside the raster is zero.
crop(img, b) ==
    LET w == Max(b[3] - b[1], 0)
        h == Max(b[4] - b[2], 0)
        src(p) == <<p[1] + b[1], p[2] + b[2]>>
    IN  [mode |-> img.mode, size |-> <<w, h>>,
         px |-> [p \in Pixels(w, h) |->
                    IF src(p) \in DOMAIN img.px
                    THEN img.px[src(p)] ELSE ZeroPixel(img.mode)]]

IsEmpty(img) == img.size[1] = 0 \/ img.size[2] = 0

\* cropped.split()[-1]: the last band
AlphaOf(p) == p[Len(p)]

\* paste converts the pasted image to the mode of the canvas ("RGB")
ToRGB(mode, p) ==
    IF mode = "LA" THEN <<p[1], p[1], p[1]>> ELSE <<p[1], p[2], p[3]>>

\* Blending one band of the canvas (bg) with the pasted band (fg) under the
\* mask value a, in 8-bit arithmetic with rounding.
Blend(a, bg, fg) ==
    LET tmp == fg * a + bg * (255 - a) + 128
    IN  ((tmp \div 256) + tmp) \div 256

\* background = Image.new("RGB", cropped.size, (255, 255, 255))
\* background.paste(cropped, mask=cropped.split()[-1])
Flatten(cropped) ==
    [mode |-> "RGB", size |-> cropped.size,
     px |-> [p \in DOMAIN cropped.px |->
                LET fg == ToRGB(cropped.mode, cropped.px[p])
                    a == AlphaOf(cropped.px[p])
                IN  <<Blend(a, White, fg[1]), Blend(a, White, fg[2]),
                      Blend(a, White, fg[3])>>]]

\* The test without "LA".
HasAlpha_OnlyRGBA(mode) == mode = "RGBA"
\* cropped.mode in ("RGBA", "LA")
HasAlpha(mode) == mode \in {"RGBA", "LA"}

\* The image that reaches .save(output_img_path)
SavedImage(cropped) ==
    IF HasAlpha(cropped.mode) THEN Flatten(cropped) ELSE cropped

----------------------------------------------------------------------------
(* The rendered document: what the browser engine reports *)

Rect(l, t, r, b) == [left |-> l, top |-> t, right |-> r, bottom |-> b]
Px(n) == n * Scale                  \* n whole pixels
Frac == Scale - 1                   \* the largest fraction below one pixel

\* One DOM element under document.body: its getBoundingClientRect(), whether
\* isVisible(elem) holds, and whether its classList contains 'bridge-diagram'.
Elem(rect, visible, bridge) == [rect |-> rect, visible |-> visible, bridge |-> bridge]

NoPage == [shot |-> NoImage, elems |-> {}, body |-> Rect(0, 0, 0, 0)]

\* int(x) of a float: truncation toward zero
int(x) == IF x >= 0 THEN x \div Scale ELSE -((-x) \div Scale)

\* The first execute_script of get_union_bbox: the rectangles of the elements
\* that are visible and do not carry the class 'bridge-diagram'.
VisibleRects(page) == {e.rect : e \in {x \in page.elems : x.visible /\ ~x.bridge}}

\* The same with right and bottom clamped like left and top.
get_union_bbox_ClampAll(page, m) ==
    LET rects == IF VisibleRects(page) = {} THEN {page.body} ELSE VisibleRects(page)
        left == MinOf({r.left : r \in rects})
        top == MinOf({r.top : r \in rects})
        right == MaxOf({r.right : r \in rects})
        bottom == MaxOf({r.bottom : r \in rects})
    IN  <<Max(int(left) - m, 0), Max(int(top) - m, 0),
          Max(int(right) + m, 0), Max(int(bottom) + m, 0)>>

\* get_union_bbox(driver, margin) of render.py
get_union_bbox(page, m) ==
    LET rects == IF VisibleRects(page) = {} THEN {page.body} ELSE VisibleRects(page)
        left == MinOf({r.left : r \in rects})
        top == MinOf({r.top : r \in rects})
        right == MaxOf({r.right : r \in rects})
        bottom == MaxOf({r.bottom : r \in rects})
    IN  <<Max(int(left) - m, 0), Max(int(top) - m, 0),
          int(right) + m, int(bottom) + m>>

\* get_visible_bbox(driver, margin) of render_selenium.py: the body only
get_visible_bbox(page, m) ==
    LET rect == page.body
    IN  <<Max(int(rect.left) - m, 0), Max(int(rect.top) - m, 0),
          int(rect.right) + m, int(rect.bottom) + m>>

----------------------------------------------------------------------------
(* File contents *)

File(kind, img, page, of, ver) ==
    [kind |-> kind, img |-> img, page |-> page, of |-> of, ver |-> ver]

Absent == File("absent", NoImage, NoPage, NoName, 0)
HtmlFile(page) == File("html", NoImage, page, NoName, 0)
OtherFile == File("other", NoImage, NoPage, NoName, 0)
\* A raster on disk: img is its pixels, of the document it shows, ver the
\* run that wrote it (0: it was there before the first run).
ImageFile(img, of, ver) == File("image", img, NoPage, of, ver)

\* os.path.exists
exists(path) == fs[path].kind # "absent"

\* os.listdir(directory)
listdir == {n \in DirNames : exists(InDirectory(n))}

----------------------------------------------------------------------------
(* The documents of the batch runs *)

ShotA ==
    [mode |-> "RGBA", size |-> <<2, 2>>,
     px |-> [p \in Pixels(2, 2) |->
                CASE p = <<0, 0>> -> <<200, 0, 0, 255>>
                  [] p = <<1, 0>> -> <<0, 0, 200, 0>>
                  [] p = <<0, 1>> -> <<0, 200, 0, 128>>
                  [] OTHER -> <<10, 20, 30, 255>>]]

ShotB ==
    [mode |-> "RGB", size |-> <<2, 2>>,
     px |-> [p \in Pixels(2, 2) |-> <<p[1] * 100, p[2] * 100, 50>>]]

OldImage == [mode |-> "RGB", size |-> <<1, 1>>, px |-> [p \in Pixels(1, 1) |-> <<7, 7, 7>>]]

\* Two visible elements (one at a fractional position), one hidden element
\* and one element of class 'bridge-diagram'.
PageA ==
    [shot |-> ShotA,
     elems |-> {Elem(Rect(0, 0, Px(1), Px(1)), TRUE, FALSE),
                Elem(Rect(Frac, 0, Px(2), Px(1) + Frac), TRUE, FALSE),
                Elem(Rect(0, 0, Px(9), Px(9)), FALSE, FALSE),
                Elem(Rect(0, 0, Px(5), Px(5)), TRUE, TRUE)},
     body |-> Rect(0, 0, Px(2), Px(2))]

\* No visible element: the body rectangle is used.
PageB ==
    [shot |-> ShotB,
     elems |-> {Elem(Rect(0, 0, Px(9), Px(9)), FALSE, FALSE)},
     body |-> Rect(0, 0, Px(2), 0)]

PageOf(name) == IF name = B_html THEN PageB ELSE PageA

BatchMargins == {1, -1}

----------------------------------------------------------------------------
(* Initial states of a batch invocation *)

Idle == [t \in Tasks |-> "idle"]
NoArgs == [t \in Tasks |-> [html |-> InDirectory(NoName), out |-> InDirectory(NoName)]]
NoDriver == [state |-> "none", page |-> NoPage, of |-> NoName]
NoDrivers == [t \in Tasks |-> NoDriver]
NoBoxes == [t \in Tasks |-> NoBox]
NoRaise == [t \in Tasks |-> ""]

OutcomeAtStart(listing) ==
    [n \in DirNames |-> IF n \in listing THEN "Pending" ELSE "NotListed"]

\* docs: the '.html' entries; pngs: artifacts of an earlier run; stale: a
\* screenshot an earlier, failed run left behind at its fixed path.
InitFs(docs, pngs, stale) ==
    [p \in Paths |->
        IF stale /\ p = screenshot_path(MainTask) THEN ImageFile(OldImage, NoName, 0)
        ELSE IF p.dir # "directory" THEN Absent
        ELSE IF p.name \in docs THEN HtmlFile(PageOf(p.name))
        ELSE IF p.name \in OtherNames THEN OtherFile
        ELSE IF p.name \in pngs THEN ImageFile(OldImage, NoName, 0)
        ELSE Absent]

Init ==
    /\ cwdIsDir \in BOOLEAN
    /\ \E docs \in SUBSET {B_html, Selenium_rendered_html} :
       \E pngs \in SUBSET {PngNameOf(A_html)} :
       \E stale \in BOOLEAN :
          fs = InitFs({A_html} \cup docs, pngs, stale)
    /\ force \in BOOLEAN
    /\ margin \in BatchMargins
    /\ script = "render.py"
    /\ runNo = 1
    /\ run = "loop"
    /\ todo = listdir
    /\ cur = NoName
    /\ outcome = OutcomeAtStart(listdir)
    /\ pc = Idle
    /\ args = NoArgs
    /\ driver = NoDrivers
    /\ box = NoBoxes
    /\ cropArg = NoBoxes
    /\ launches = 0
    /\ raisedAt = NoRaise
    /\ fsAtStart = fs

----------------------------------------------------------------------------
(* render_and_crop_html_selenium(html_path, output_img_path, margin), one   *)
(* action per statement that touches the engine or the file system.  Every  *)
(* call into the engine or the image library may raise; there is no         *)
(* try/finally, so an exception leaves the function at once.                *)

loopVars == <<cwdIsDir, force, margin, runNo, run, todo, cur, outcome,
              args, fsAtStart, script>>

Raise(t, step) ==
    /\ pc' = [pc EXCEPT ![t] = "raised"]
    /\ raisedAt' = [raisedAt EXCEPT ![t] = step]

Goto(t, step) ==
    /\ pc' = [pc EXCEPT ![t] = step]
    /\ UNCHANGED raisedAt

\* driver = webdriver.Chrome(options=chrome_options)
Launch(t) ==
    /\ pc[t] = "launch"
    /\ \E ok \in BOOLEAN :
          IF ok
          THEN /\ driver' = [driver EXCEPT ![t] = [NoDriver EXCEPT !.state = "live"]]
               /\ launches' = launches + 1
               /\ Goto(t, "get")
          ELSE /\ Raise(t, "launch")
               /\ UNCHANGED <<driver, launches>>
    /\ UNCHANGED <<fs, box, cropArg>>
    /\ UNCHANGED loopVars

\* driver.get('file://' + abs_html_path); time.sleep(1)
Get(t) ==
    /\ pc[t] = "get"
    /\ \E ok \in BOOLEAN :
          IF ok
          THEN /\ driver' = [driver EXCEPT ![t].page = fs[args[t].html].page,
                                           ![t].of = args[t].html.name]
               /\ Goto(t, "screenshot")
          ELSE /\ Raise(t, "get")
               /\ UNCHANGED driver
    /\ UNCHANGED <<fs, box, cropArg, launches>>
    /\ UNCHANGED loopVars

\* driver.save_screenshot(screenshot_path)
SaveScreenshot(t) ==
    /\ pc[t] = "screenshot"
    /\ \E ok \in BOOLEAN :
          IF ok
          THEN /\ fs' = [fs EXCEPT ![screenshot_path(t)] =
                            ImageFile(driver[t].page.shot, driver[t].of, runNo)]
               /\ Goto(t, "bbox")
          ELSE /\ Raise(t, "screenshot")
               /\ UNCHANGED fs
    /\ UNCHANGED <<driver, box, cropArg, launches>>
    /\ UNCHANGED loopVars

\* left, top, right, bottom = get_union_bbox(driver, margin)   (render.py)
\* left, top, right, bottom = get_visible_bbox(driver, margin) (render_selenium.py)
QueryBBox(t) ==
    /\ pc[t] = "bbox"
    /\ \E ok \in BOOLEAN :
          IF ok
          THEN /\ box' = [box EXCEPT ![t] =
                            IF script = "render.py"
                            THEN get_union_bbox(driver[t].page, margin)
                            ELSE get_visible_bbox(driver[t].page, margin)]
               /\ Goto(t, "quit")
          ELSE /\ Raise(t, "bbox")
               /\ UNCHANGED box
    /\ UNCHANGED <<fs, driver, cropArg, launches>>
    /\ UNCHANGED loopVars

\* driver.quit()
Quit(t) ==
    /\ pc[t] = "quit"
    /\ driver' = [driver EXCEPT ![t].state = "quit"]
    /\ Goto(t, "open")
    /\ UNCHANGED <<fs, box, cropArg, launches>>
    /\ UNCHANGED loopVars

\* with Image.open(screenshot_path) as img:
\*     cropped = img.crop((left, top, right, bottom))
\*     ... background.save(output_img_path) / cropped.save(output_img_path)
\* Image.open raises when the file is missing.  The box goes to img.crop as
\* it came from the bbox query; an empty crop cannot be written as PNG, so
\* crop or save raises for it.
OpenCropSave(t) ==
    /\ pc[t] = "open"
    /\ LET f == fs[screenshot_path(t)]
           cropped == crop(f.img, box[t])
       IN  IF f.kind # "image"
           THEN /\ Raise(t, "open")
                /\ UNCHANGED <<fs, cropArg>>
           ELSE /\ cropArg' = [cropArg EXCEPT ![t] = box[t]]
                /\ IF IsEmpty(cropped)
                   THEN /\ Raise(t, "crop")
                        /\ UNCHANGED fs
                   ELSE \E ok \in BOOLEAN :
                           IF ok
                           THEN /\ fs' = [fs EXCEPT ![args[t].out] =
                                             ImageFile(SavedImage(cropped), f.of, runNo)]
                                /\ Goto(t, "remove")
                           ELSE /\ Raise(t, "save")
                                /\ UNCHANGED fs
    /\ UNCHANGED <<driver, box, launches>>
    /\ UNCHANGED loopVars

\* os.remove(screenshot_path): raises when the file is missing
Remove(t) ==
    /\ pc[t] = "remove"
    /\ IF exists(screenshot_path(t))
       THEN /\ fs' = [fs EXCEPT ![screenshot_path(t)] = Absent]
            /\ Goto(t, "returned")
       ELSE /\ Raise(t, "remove")
            /\ UNCHANGED fs
    /\ UNCHANGED <<driver, box, cropArg, launches>>
    /\ UNCHANGED loopVars

render_and_crop_html_selenium(t) ==
    \/ Launch(t)
    \/ Get(t)
    \/ SaveScreenshot(t)
    \/ QueryBBox(t)
    \/ Quit(t)
    \/ OpenCropSave(t)
    \/ Remove(t)

----------------------------------------------------------------------------
(* process_directory_selenium(directory, margin, force): the for loop over  *)
(* os.listdir(directory), whose order is arbitrary.                         *)

renderVars == <<fs, driver, box, cropArg, launches, raisedAt>>
AtLoopHead == run = "loop" /\ cur = NoName /\ pc[MainTask] = "idle"

\* The existence test inverted.
ShouldSkip_Inverted(filename) == ~force /\ ~exists(output_img_path(filename))
\* not force and os.path.exists(output_img_path)
ShouldSkip(filename) == ~force /\ exists(output_img_path(filename))

\* if filename.endswith('.html'): (false)
IgnoreEntry ==
    /\ AtLoopHead
    /\ \E filename \in todo :
          /\ ~endswith(filename, DotHtml)
          /\ todo' = todo \ {filename}
          /\ outcome' = [outcome EXCEPT ![filename] = "Ignored"]
    /\ UNCHANGED <<cwdIsDir, force, margin, runNo, run, cur, pc, args, fsAtStart, script>>
    /\ UNCHANGED renderVars

\* if not force and os.path.exists(output_img_path): print("Skipping ..."); continue
SkipExisting ==
    /\ AtLoopHead
    /\ \E filename \in todo :
          /\ endswith(filename, DotHtml)
          /\ ShouldSkip(filename)
          /\ todo' = todo \ {filename}
          /\ outcome' = [outcome EXCEPT ![filename] = "Skipped"]
    /\ UNCHANGED <<cwdIsDir, force, margin, runNo, run, cur, pc, args, fsAtStart, script>>
    /\ UNCHANGED renderVars

\* print("Processing ..."); render_and_crop_html_selenium(html_path, output_img_path, margin)
BeginRender ==
    /\ AtLoopHead
    /\ \E filename \in todo :
          /\ endswith(filename, DotHtml)
          /\ ~ShouldSkip(filename)
          /\ todo' = todo \ {filename}
          /\ cur' = filename
          /\ outcome' = [outcome EXCEPT ![filename] = "Rendering"]
          /\ args' = [args EXCEPT ![MainTask] = [html |-> html_path(filename),
                                                 out |-> output_img_path(filename)]]
    /\ pc' = [pc EXCEPT ![MainTask] = "launch"]
    /\ UNCHANGED <<cwdIsDir, force, margin, runNo, run, fsAtStart, script>>
    /\ UNCHANGED renderVars

\* The call returns (its locals are gone): the loop goes on to the next entry.
RenderReturns ==
    /\ run = "loop"
    /\ pc[MainTask] = "returned"
    /\ outcome' = [outcome EXCEPT ![cur] = "Rendered"]
    /\ cur' = NoName
    /\ pc' = [pc EXCEPT ![MainTask] = "idle"]
    /\ args' = NoArgs
    /\ driver' = NoDrivers
    /\ box' = NoBoxes
    /\ cropArg' = NoBoxes
    /\ UNCHANGED <<cwdIsDir, force, margin, runNo, run, todo, fsAtStart, script>>
    /\ UNCHANGED <<fs, launches, raisedAt>>

\* The call raises: nothing catches the exception, the loop and the process end.
RenderRaises ==
    /\ run = "loop"
    /\ pc[MainTask] = "raised"
    /\ outcome' = [outcome EXCEPT ![cur] = "Failed"]
    /\ run' = "aborted"
    /\ UNCHANGED <<cwdIsDir, force, margin, runNo, todo, cur, pc, args, fsAtStart, script>>
    /\ UNCHANGED renderVars

\* The listing is exhausted.
LoopEnds ==
    /\ AtLoopHead
    /\ todo = {}
    /\ run' = "done"
    /\ UNCHANGED <<cwdIsDir, force, margin, runNo, todo, cur, outcome, pc, args,
                   fsAtStart, script>>
    /\ UNCHANGED renderVars

\* After a run that went through the whole listing, the script is invoked
\* again on the same directory (a new process).
Rerun ==
    /\ run = "done"
    /\ runNo < MaxRuns
    /\ runNo' = runNo + 1
    /\ force' \in BOOLEAN
    /\ margin' \in BatchMargins
    /\ run' = "loop"
    /\ todo' = listdir
    /\ cur' = NoName
    /\ outcome' = OutcomeAtStart(listdir)
    /\ pc' = Idle
    /\ args' = NoArgs
    /\ driver' = NoDrivers
    /\ box' = NoBoxes
    /\ cropArg' = NoBoxes
    /\ launches' = 0
    /\ raisedAt' = NoRaise
    /\ fsAtStart' = fs
    /\ UNCHANGED <<cwdIsDir, fs, script>>

process_directory_selenium ==
    \/ IgnoreEntry
    \/ SkipExisting
    \/ BeginRender
    \/ render_and_crop_html_selenium(MainTask)
    \/ RenderReturns
    \/ RenderRaises
    \/ LoopEnds

Next == process_directory_selenium \/ Rerun

Spec == Init /\ [][Next]_vars

----------------------------------------------------------------------------
(* Two invocations of render_and_crop_html_selenium for different          *)
(* documents, their statements interleaved.                                *)

Scripts == {"render.py", "render_selenium.py"}

InitConc ==
    /\ cwdIsDir \in BOOLEAN
    /\ fs = InitFs({A_html, B_html}, {}, FALSE)
    /\ force = FALSE
    /\ margin \in BatchMargins
    /\ script \in Scripts
    /\ runNo = 1
    /\ run = "none"
    /\ todo = {}
    /\ cur = NoName
    /\ outcome = OutcomeAtStart({})
    /\ pc = [t \in Tasks |-> "launch"]
    /\ args = [t \in Tasks |->
                 IF t = MainTask
                 THEN [html |-> html_path(A_html), out |-> output_img_path(A_html)]
                 ELSE [html |-> html_path(B_html), out |-> output_img_path(B_html)]]
    /\ driver = NoDrivers
    /\ box = NoBoxes
    /\ cropArg = NoBoxes
    /\ launches = 0
    /\ raisedAt = NoRaise
    /\ fsAtStart = fs

NextConc == \E t \in Tasks : render_and_crop_html_selenium(t)

SpecConc == InitConc /\ [][NextConc]_vars

----------------------------------------------------------------------------
(* The bounding-box query alone, on documents drawn from a set of element  *)
(* rectangles.                                                             *)

BBoxElems ==
    {Elem(Rect(Px(10), Px(10), Px(100), Px(50)), TRUE, FALSE),
     Elem(Rect(Px(80), Px(40), Px(200), Px(120)), TRUE, FALSE),
     Elem(Rect(Px(5) + Frac, Px(30), Px(210) + Frac, Px(60)), TRUE, FALSE),
     Elem(Rect(-(Px(5) + Frac), -Px(3), Px(20), Px(20)), TRUE, FALSE),
     Elem(Rect(-Px(200), Px(10), -Px(100), Px(50)), TRUE, FALSE),
     Elem(Rect(Px(1000), Px(1000), Px(1915), Px(1075)), TRUE, FALSE),
     Elem(Rect(-Px(50), -Px(50), Px(1900), Px(1000)), FALSE, FALSE),
     Elem(Rect(0, 0, Px(500), Px(500)), TRUE, TRUE)}

BBoxBodies ==
    {Rect(0, 0, Px(WindowWidth), Px(WindowHeight)),
     Rect(Px(8), Px(8) + Frac, Px(300) + Frac, Px(8) + Frac)}

BBoxMargins == {DefaultMargin, 0, -DefaultMargin}

\* The raster of the viewport; its pixels are not read by the query.
BBoxShot == [mode |-> "RGBA", size |-> <<WindowWidth, WindowHeight>>, px |-> <<>>]

InitBBox ==
    /\ cwdIsDir = FALSE
    /\ fs = InitFs({A_html}, {}, FALSE)
    /\ force = FALSE
    /\ margin \in BBoxMargins
    /\ script \in Scripts
    /\ runNo = 1
    /\ run = "none"
    /\ todo = {}
    /\ cur = NoName
    /\ outcome = OutcomeAtStart({})
    /\ pc = [Idle EXCEPT ![MainTask] = "bbox"]
    /\ args = [NoArgs EXCEPT ![MainTask] =
                 [html |-> html_path(A_html), out |-> output_img_path(A_html)]]
    /\ \E elems \in SUBSET BBoxElems :
       \E body \in BBoxBodies :
          driver = [NoDrivers EXCEPT ![MainTask] =
                      [state |-> "live",
                       page |-> [shot |-> BBoxShot, elems |-> elems, body |-> body],
                       of |-> A_html]]
    /\ box = NoBoxes
    /\ cropArg = NoBoxes
    /\ launches = 1
    /\ raisedAt = NoRaise
    /\ fsAtStart = fs

NextBBox == QueryBBox(MainTask)

SpecBBox == InitBBox /\ [][NextBBox]_vars

----------------------------------------------------------------------------
(* Opening, cropping, flattening and saving alone, on rasters and boxes    *)
(* drawn from bounded sets.                                                *)

Modes == {"RGBA", "LA", "RGB", "L"}

PixelChoices(mode) ==
    CASE mode = "RGBA" -> {<<200, 0, 0, 255>>, <<0, 0, 200, 0>>, <<0, 200, 0, 128>>}
      [] mode = "LA" -> {<<90, 255>>, <<90, 0>>, <<40, 128>>}
      [] mode = "RGB" -> {<<1, 2, 3>>, <<255, 255, 255>>}
      [] OTHER -> {<<5>>, <<250>>}

Rasters ==
    UNION {{[mode |-> m, size |-> <<ImgW, ImgH>>, px |-> f] :
               f \in [Pixels(ImgW, ImgH) -> PixelChoices(m)]} : m \in Modes}

CropBoxes ==
    {<<0, 0, ImgW, ImgH>>, <<1, 0, ImgW, ImgH>>, <<0, 0, ImgW + 1, ImgH + 1>>,
     <<0, 0, 1, 1>>, <<1, 0, 1, 1>>, <<0, 1, ImgW, 0>>}

InitImage ==
    /\ cwdIsDir = FALSE
    /\ \E img \in Rasters :
          fs = [InitFs({A_html}, {}, FALSE) EXCEPT
                   ![screenshot_path(MainTask)] = ImageFile(img, A_html, 1)]
    /\ force = FALSE
    /\ margin = DefaultMargin
    /\ script \in Scripts
    /\ runNo = 1
    /\ run = "none"
    /\ todo = {}
    /\ cur = NoName
    /\ outcome = OutcomeAtStart({})
    /\ pc = [Idle EXCEPT ![MainTask] = "open"]
    /\ args = [NoArgs EXCEPT ![MainTask] =
                 [html |-> html_path(A_html), out |-> output_img_path(A_html)]]
    /\ driver = [NoDrivers EXCEPT ![MainTask] =
                   [state |-> "quit", page |-> NoPage, of |-> A_html]]
    /\ box \in {[NoBoxes EXCEPT ![MainTask] = b] : b \in CropBoxes}
    /\ cropArg = NoBoxes
    /\ launches = 1
    /\ raisedAt = NoRaise
    /\ fsAtStart = fs

NextImage == OpenCropSave(MainTask)

SpecImage == InitImage /\ [][NextImage]_vars

----------------------------------------------------------------------------
(* Properties *)

Terminal == {"Skipped", "Rendered", "Failed"}
RunEnded == run \in {"done", "aborted"}
IsPng(content) == content.kind = "image"

\* The '.html' entries of the listing of this run
ListedHtml == {f \in DirNames : outcome[f] # "NotListed" /\ endswith(f, DotHtml)}

\* C1 (step): when the loop passes an '.html' entry whose output exists and
\* force is false, the entry is skipped: no file changes, no engine is
\* launched, no render starts.
C1_SkipStep ==
    \A f \in DirNames :
        (/\ f \in todo
         /\ f \notin todo'
         /\ endswith(f, DotHtml)
         /\ ~force
         /\ fs[output_img_path(f)].kind # "absent")
        => (/\ outcome'[f] = "Skipped"
            /\ fs' = fs
            /\ driver' = driver
            /\ launches' = launches
            /\ pc'[MainTask] = "idle")

\* C1 (run): a later run with force=false that finds every artifact in place
\* launches no engine and changes no file.
C1_SecondRun ==
    (/\ runNo >= 2
     /\ ~force
     /\ \A f \in ListedHtml : fsAtStart[output_img_path(f)].kind # "absent")
    => (launches = 0 /\ fs = fsAtStart)

\* C1: with force=false a document whose '.png' exists when the loop reaches
\* it is skipped without launching an engine or touching any file, and a
\* second run over a directory holding every artifact renders nothing and
\* changes nothing.
C1_SkipIfExists == []C1_SecondRun /\ [][C1_SkipStep]_vars

C1_Witness ==
    /\ runNo = 2
    /\ ~force
    /\ run = "done"
    /\ Cardinality(ListedHtml) >= 2
    /\ \A f \in ListedHtml :
          /\ outcome[f] = "Skipped"
          /\ IsPng(fs[output_img_path(f)])
          /\ fs[output_img_path(f)].ver = 1

\* C2: with force=true, once the run is over every '.html' document of the
\* listing went to the renderer (none skipped, none left out), and each one
\* that was rendered has its '.png' replaced by this run's render of it.
C2_ForceRerendersAll ==
    (force /\ RunEnded) =>
        \A f \in ListedHtml :
            /\ outcome[f] \in {"Rendered", "Failed"}
            /\ outcome[f] = "Rendered" =>
                  /\ IsPng(fs[output_img_path(f)])
                  /\ fs[output_img_path(f)].ver = runNo
                  /\ fs[output_img_path(f)].of = f

\* C3: the run processes only entries ending in '.html', and all of them
\* when it goes through the whole listing, each into <name without
\* '.html'>.png of the same directory, distinct documents into distinct
\* paths, and no other '.png' of the directory is written.
C3_ExactlyHtmlEntries ==
    /\ \A f \in DirNames :
          outcome[f] \in Terminal \cup {"Rendering"} => endswith(f, DotHtml)
    /\ run = "done" => \A f \in ListedHtml : outcome[f] \in Terminal
    /\ cur # NoName =>
          /\ args[MainTask].html = InDirectory(cur)
          /\ args[MainTask].out = InDirectory(SubSeq(cur, 1, Len(cur) - Len(DotHtml)) \o DotPng)
    /\ \A f, g \in ListedHtml : f # g => output_img_path(f) # output_img_path(g)
    /\ \A p \in Paths :
          (p.dir = "directory" /\ endswith(p.name, DotPng) /\ fs[p] # fsAtStart[p])
          => \E f \in ListedHtml : p = output_img_path(f)

\* C5: a failed document does not halt the batch: when the run is over and
\* some document failed, every other '.html' document was still processed.
C5_FailureDoesNotHalt ==
    (RunEnded /\ \E f \in ListedHtml : outcome[f] = "Failed")
    => \A f \in ListedHtml : outcome[f] \in Terminal

\* C6: whenever render_and_crop_html_selenium has ended, by return or by an
\* exception, its engine is not running and the screenshot it wrote is gone.
C6_ReleasedOnEveryExit ==
    \A t \in Tasks :
        pc[t] \in {"returned", "raised"} =>
            /\ driver[t].state # "live"
            /\ ~(/\ IsPng(fs[screenshot_path(t)])
                 /\ fs[screenshot_path(t)].ver = runNo
                 /\ fs[screenshot_path(t)].of = args[t].html.name)

\* C7: a rectangle of non-positive width or height never reaches img.crop.
C7_NoDegenerateCrop ==
    \A t \in Tasks :
        cropArg[t] # NoBox =>
            /\ cropArg[t][3] > cropArg[t][1]
            /\ cropArg[t][4] > cropArg[t][2]

\* C9 (state): a run that is over left no '.html' document short of a
\* terminal state; at most one document is being rendered and at most one
\* engine is running.
C9_State ==
    /\ RunEnded => \A f \in ListedHtml : outcome[f] \in Terminal
    /\ Cardinality({f \in DirNames : outcome[f] = "Rendering"}) <= 1
    /\ Cardinality({t \in Tasks : driver[t].state = "live"}) <= 1

\* C9 (step): within a run a document moves only along
\* Pending -> (Skipped | Rendering -> (Rendered | Failed)).
C9_Step ==
    runNo' = runNo =>
        \A f \in ListedHtml :
            /\ outcome[f] = "Pending" =>
                  outcome'[f] \in {"Pending", "Skipped", "Rendering"}
            /\ outcome[f] = "Rendering" =>
                  outcome'[f] \in {"Rendering", "Rendered", "Failed"}
            /\ outcome[f] \in Terminal => outcome'[f] = outcome[f]

\* C9: every enumerated document follows the state machine, ends in exactly
\* one terminal state, is rendered at most once, and documents are rendered
\* one after the other with at most one engine alive.
C9_DocumentStateMachine == []C9_State /\ [][C9_Step]_vars

----------------------------------------------------------------------------
(* Properties of the bounding-box query (SpecBBox) *)

C4_Case == script = "render.py" /\ pc[MainTask] = "quit"

\* The rectangles the query works on
C4_Rects ==
    LET page == driver[MainTask].page
        R == {e.rect : e \in {x \in page.elems : x.visible /\ ~x.bridge}}
    IN  IF R = {} THEN {page.body} ELSE R

\* C4 as stated: left = max(min lefts - m, 0), top = max(min tops - m, 0),
\* right = max rights + m, bottom = max bottoms + m, on the coordinates as
\* the browser reports them.
C4_Original ==
    C4_Case =>
        LET b == box[MainTask]
            m == margin * Scale
        IN  /\ b[1] * Scale = Max(MinOf({r.left : r \in C4_Rects}) - m, 0)
            /\ b[2] * Scale = Max(MinOf({r.top : r \in C4_Rects}) - m, 0)
            /\ b[3] * Scale = MaxOf({r.right : r \in C4_Rects}) + m
            /\ b[4] * Scale = MaxOf({r.bottom : r \in C4_Rects}) + m

\* C4 amended: the same with every coordinate truncated toward zero to a
\* whole pixel before the margin is applied; left and top are never
\* negative, right and bottom are whatever the sum gives.
C4_UnionBBox ==
    C4_Case =>
        LET b == box[MainTask]
            R == C4_Rects
        IN  /\ b[1] >= 0 /\ b[2] >= 0
            /\ \A r \in R : /\ b[1] <= Max(int(r.left) - margin, 0)
                            /\ b[2] <= Max(int(r.top) - margin, 0)
                            /\ b[3] >= int(r.right) + margin
                            /\ b[4] >= int(r.bottom) + margin
            /\ \E r \in R : b[1] = Max(int(r.left) - margin, 0)
            /\ \E r \in R : b[2] = Max(int(r.top) - margin, 0)
            /\ \E r \in R : b[3] = int(r.right) + margin
            /\ \E r \in R : b[4] = int(r.bottom) + margin
            /\ (/\ R = {Rect(Px(10), Px(10), Px(100), Px(50)),
                        Rect(Px(80), Px(40), Px(200), Px(120))}
                /\ margin = 20)
               => b = <<0, 0, 220, 140>>

C4_Witness ==
    /\ C4_Case
    /\ C4_Rects = {Rect(Px(10), Px(10), Px(100), Px(50)),
                   Rect(Px(80), Px(40), Px(200), Px(120))}
    /\ margin = 20
    /\ box[MainTask] = <<0, 0, 220, 140>>

----------------------------------------------------------------------------
(* Properties of crop, flatten and save (SpecImage) *)

C8_Case == pc[MainTask] = "remove"

\* C8: the artifact has the crop's size; if the screenshot has an alpha
\* channel the artifact is RGB, white where the crop is fully transparent
\* and the crop's colour where it is fully opaque; otherwise the artifact's
\* pixels are the crop's pixels unchanged.
C8_FlattenOnWhite ==
    C8_Case =>
        LET src == fs[screenshot_path(MainTask)].img
            art == fs[args[MainTask].out].img
            b == cropArg[MainTask]
            w == b[3] - b[1]
            h == b[4] - b[2]
            at(p) == LET q == <<p[1] + b[1], p[2] + b[2]>>
                     IN  IF q \in DOMAIN src.px THEN src.px[q] ELSE ZeroPixel(src.mode)
            colour(x) == IF src.mode = "LA" THEN <<x[1], x[1], x[1]>>
                         ELSE <<x[1], x[2], x[3]>>
        IN  /\ art.size = <<w, h>>
            /\ DOMAIN art.px = Pixels(w, h)
            /\ IF src.mode \in {"RGBA", "LA"}
               THEN /\ art.mode = "RGB"
                    /\ \A p \in Pixels(w, h) :
                          /\ at(p)[Len(at(p))] = 0 => art.px[p] = <<255, 255, 255>>
                          /\ at(p)[Len(at(p))] = 255 => art.px[p] = colour(at(p))
               ELSE /\ art.mode = src.mode
                    /\ \A p \in Pixels(w, h) : art.px[p] = at(p)

C8_Witness ==
    /\ C8_Case
    /\ LET src == fs[screenshot_path(MainTask)].img
           art == fs[args[MainTask].out].img
       IN  /\ src.mode = "LA"
           /\ \E p \in DOMAIN art.px : art.px[p] = <<255, 255, 255>>
           /\ \E p \in DOMAIN art.px : art.px[p] = <<90, 90, 90>>

----------------------------------------------------------------------------
(* Properties of two interleaved renders (SpecConc) *)

OtherTask(t) == CHOOSE u \in Tasks : u # t
Holding(t) == pc[t] \in {"bbox", "quit", "open"}

\* C10: the two tasks share one screenshot file.  While both hold a
\* screenshot they have saved and not yet opened, the file shows the
\* document of only one of them, so the other is about to crop the wrong
\* document; and a task finds the file missing at Image.open or os.remove
\* only after the other task's os.remove.
C10_SharedScreenshotConflict ==
    /\ (\A t \in Tasks : Holding(t)) =>
          \E t \in Tasks :
              /\ IsPng(fs[screenshot_path(t)])
              /\ fs[screenshot_path(t)].of # args[t].html.name
    /\ \A t \in Tasks :
          raisedAt[t] \in {"open", "remove"} => pc[OtherTask(t)] = "returned"

C10_Witness ==
    \E t \in Tasks :
        /\ IsPng(fs[args[t].out])
        /\ fs[args[t].out].of = args[OtherTask(t)].html.name
        /\ raisedAt[OtherTask(t)] = "open"

====
